---- MODULE Spec2Model ----
(***************************************************************************)
(* A model of pool4go (src/pool.go): a bounded pool of closable resources. *)
(* Callers are goroutines inside Get; Put, Release and Close never wait.    *)
(* Every                                                                   *)
(* critical section of the source runs under the pool's single mutex, so   *)
(* each section between Lock and Unlock (or Lock and cond.Wait) is one     *)
(* atomic action.  One iteration of the loop of get() is one action; a     *)
(* caller that executes `continue` or returns from cond.Wait re-enters the *)
(* loop in a later action, so other callers interleave in between.         *)
(***************************************************************************)
EXTENDS Integers, Sequences, FiniteSets, TLC

\* ---------------------------------------------------------------- bounds
NumCallers == 2      \* goroutines calling Get
MaxConns   == 2      \* resources the factory hands out in one behaviour
MaxTime    == 2      \* the clock runs 0..MaxTime

\* ------------------------------------------------------ program constants
kMaxIdle == 2
Nil      == 0        \* the nil Conn

Callers == 1..NumCallers
Conns   == 1..MaxConns

NoErr         == "nil"
ErrClosedPool == "pool4go: get on closed pool"
DialErr       == "dial error"        \* an error returned by newFunc
BorrowErr     == "borrow error"      \* an error returned by testOnBorrowFunc

\* Values the options WithMaxIdle / WithMaxOpen / WithIdleTimeout are given.
\* The default kMaxIdle is always among the configurations; the default
\* KMaxOpen = 4 is above the number of resources a behaviour creates, where it
\* acts as "unlimited" does, so WithMaxOpen is always applied.
MaxIdleOpts     == {-1, 0, 1}
MaxOpenOpts     == {0, 1, 2}
IdleTimeoutOpts == {0, 1}

VARIABLES
    maxIdleConn,       \* pool.maxIdleConn
    maxOpenConn,       \* pool.maxOpenConn
    idleTimeout,       \* pool.idleTimeout
    testOnBorrowFunc,  \* TRUE iff pool.testOnBorrowFunc # nil
    numOpenConn,       \* pool.numOpenConn
    running,           \* pool.running
    idleList,          \* pool.idleList: sequence of idleConn, front first
    pc,                \* where each caller is
    err,               \* the named result err of each caller's get()
    out,               \* out[c]: how many callers hold resource c, got from Get and not yet returned
    now,               \* time.Now()
    numDialed,         \* resources newFunc has produced so far
    closeCount,        \* how many times Conn.Close ran on each resource
    call,              \* facts about each caller's Get call in progress
    lastOp,            \* the last pool operation that completed, with its result
    lifo               \* the latest Put, Put, Get, Get pattern in progress

config == <<maxIdleConn, maxOpenConn, idleTimeout, testOnBorrowFunc>>
vars == <<maxIdleConn, maxOpenConn, idleTimeout, testOnBorrowFunc, numOpenConn,
          running, idleList, pc, err, out, now, numDialed, closeCount, call,
          lastOp, lifo>>

\* ------------------------------------------------------------- helpers
NoCall == [closedAtStart |-> FALSE, blockedAtClose |-> FALSE, freed |-> 0]

Op(name, p, c) ==
    [op |-> name, p |-> p, c |-> c, err |-> NoErr, new |-> FALSE,
     closedAtStart |-> FALSE, blockedAtClose |-> FALSE, freed |-> 0,
     wasRunning |-> running]

IdleConns == { idleList[i].c : i \in 1..Len(idleList) }

\* Signal that wakes nobody.
SignalNobody(f) == { f }

\* cond.Signal: wakes one goroutine waiting on the condition, if there is any.
Signal(f) ==
    IF { q \in Callers : f[q] = "wait" } = {}
    THEN { f }
    ELSE { [f EXCEPT ![q] = "woken"] : q \in { r \in Callers : f[r] = "wait" } }

\* Broadcast that wakes only one waiter, as Signal does.
BroadcastOne(f) ==
    IF \E q \in Callers : f[q] = "wait"
    THEN [f EXCEPT ![CHOOSE q \in Callers : f[q] = "wait"] = "woken"]
    ELSE f

\* cond.Broadcast: wakes all goroutines waiting on the condition.
Broadcast(f) == [q \in Callers |-> IF f[q] = "wait" THEN "woken" ELSE f[q]]

\* An idle entry never expires.
ExpiredNever(e) == FALSE

\* time.Now().After(idleConn.t.Add(idleTimeout)), guarded by idleTimeout > 0
Expired(e) == idleTimeout > 0 /\ now > e.t + idleTimeout

\* The capacity test without the "unlimited" case.
CanOpenBounded == numOpenConn < maxOpenConn

\* The capacity test off by one: <= for <.
CanOpenOffByOne == maxOpenConn <= 0 \/ numOpenConn <= maxOpenConn

\* the capacity test of get()
CanOpen == maxOpenConn <= 0 \/ numOpenConn < maxOpenConn

\* PushBack where the source has PushFront.
PushBack(l, e) == l \o <<e>>

\* list.PushFront
PushFront(l, e) == <<e>> \o l

\* The length test off by one.
OverflowOffByOne(l) == Len(l) > maxIdleConn + 1

\* the length test of put() after the push
Overflow(l) == Len(l) > maxIdleConn

\* list.Remove(list.Back())
RemoveBack(l) == SubSeq(l, 1, Len(l) - 1)

\* release that never counts down.
ReleasedNever(c) == numOpenConn

\* release that counts down for a nil resource too.
ReleasedAlways(c) == numOpenConn - 1

\* numOpenConn after release(c)
Released(c) == IF c # Nil THEN numOpenConn - 1 ELSE numOpenConn

\* pool.release(c), called with the lock held; f is pc with the caller's own
\* position already updated.
release(c, f) ==
    /\ closeCount' = IF c # Nil THEN [closeCount EXCEPT ![c] = @ + 1] ELSE closeCount
    /\ numOpenConn' = Released(c)
    /\ pc' \in Signal(f)

\* get() that never looks at running.
GetSeesClosedNever == FALSE

\* the running test of get()
GetSeesClosed == running = FALSE

\* put() that never looks at running.
PutSeesClosedNever == FALSE

\* the running test of put()
PutSeesClosed == running = FALSE

\* get() that counts a resource whatever newFunc returned.
OpenedAlways(c) == numOpenConn + 1

\* numOpenConn after newFunc returned c (nil when it failed)
Opened(c) == IF c # Nil THEN numOpenConn + 1 ELSE numOpenConn

\* pool.Get: what the wrapper returns for the pair get() returned
GetResult(c, e) == IF e # NoErr THEN [c |-> Nil, err |-> e] ELSE [c |-> c, err |-> NoErr]

\* ----------------------------------------------------------------- Init
Init ==
    /\ maxIdleConn \in {kMaxIdle} \cup MaxIdleOpts
    /\ maxOpenConn \in MaxOpenOpts
    /\ idleTimeout \in IdleTimeoutOpts
    /\ testOnBorrowFunc \in BOOLEAN
    /\ numOpenConn = 0
    /\ running = TRUE
    /\ idleList = <<>>
    /\ pc = [p \in Callers |-> "idle"]
    /\ err = [p \in Callers |-> NoErr]
    /\ out = [c \in Conns |-> 0]
    /\ now = 0
    /\ numDialed = 0
    /\ closeCount = [c \in Conns |-> 0]
    /\ call = [p \in Callers |-> NoCall]
    /\ lastOp = [Op("none", 0, Nil) EXCEPT !.wasRunning = TRUE]
    /\ lifo = <<>>

\* ------------------------------------------------------------------ Get
\* A caller invokes Get(): it is now in get(), about to lock the mutex.
GetCall(p) ==
    /\ pc[p] = "idle"
    /\ pc' = [pc EXCEPT ![p] = "get"]
    /\ err' = [err EXCEPT ![p] = NoErr]
    /\ call' = [call EXCEPT ![p] = [NoCall EXCEPT !.closedAtStart = ~running]]
    /\ UNCHANGED <<config, numOpenConn, running, idleList, out, now, numDialed,
                   closeCount, lastOp, lifo>>

\* What a returning Get leaves behind: the caller holds the resource, the call
\* is over, and the result is recorded.
GetReturns(p, c, e, new) ==
    LET r == GetResult(c, e) IN
    /\ out' = IF r.c # Nil THEN [out EXCEPT ![r.c] = @ + 1] ELSE out
    /\ err' = [err EXCEPT ![p] = NoErr]
    /\ call' = [call EXCEPT ![p] = NoCall]
    /\ lastOp' = [Op("Get", p, r.c) EXCEPT
                     !.err = r.err, !.new = new,
                     !.closedAtStart = call[p].closedAtStart,
                     !.blockedAtClose = call[p].blockedAtClose,
                     !.freed = call[p].freed]
    /\ lifo' = IF Len(lifo) \in {2, 3}
               THEN Append(lifo, [c |-> r.c, new |-> new])
               ELSE <<>>

\* The front idle entry outlived idleTimeout: release it and `continue`.
GetStale(p) ==
    /\ pc[p] = "get"
    /\ idleList # <<>>
    /\ Expired(Head(idleList))
    /\ idleList' = Tail(idleList)
    /\ release(Head(idleList).c, pc)
    /\ call' = [call EXCEPT ![p].freed = @ + 1]
    /\ lifo' = <<>>
    /\ UNCHANGED <<config, running, err, out, now, numDialed, lastOp>>

\* testOnBorrowFunc fails for the front idle entry: release it and return the
\* hook's error instead of trying again.
GetUnhealthyReturns(p) ==
    /\ pc[p] = "get"
    /\ idleList # <<>>
    /\ ~Expired(Head(idleList))
    /\ testOnBorrowFunc
    /\ idleList' = Tail(idleList)
    /\ release(Head(idleList).c, [pc EXCEPT ![p] = "idle"])
    /\ GetReturns(p, Nil, BorrowErr, FALSE)
    /\ UNCHANGED <<config, running, now, numDialed>>

\* testOnBorrowFunc fails for the front idle entry: release it and `continue`.
GetUnhealthy(p) ==
    /\ pc[p] = "get"
    /\ idleList # <<>>
    /\ ~Expired(Head(idleList))
    /\ testOnBorrowFunc
    /\ idleList' = Tail(idleList)
    /\ err' = [err EXCEPT ![p] = BorrowErr]
    /\ release(Head(idleList).c, pc)
    /\ call' = [call EXCEPT ![p].freed = @ + 1]
    /\ lifo' = <<>>
    /\ UNCHANGED <<config, running, out, now, numDialed, lastOp>>

\* The front idle entry is fresh and healthy: return it.
GetIdle(p) ==
    /\ pc[p] = "get"
    /\ idleList # <<>>
    /\ ~Expired(Head(idleList))
    /\ idleList' = Tail(idleList)
    /\ pc' = [pc EXCEPT ![p] = "idle"]
    /\ GetReturns(p, Head(idleList).c, NoErr, FALSE)
    /\ UNCHANGED <<config, numOpenConn, running, now, numDialed, closeCount>>

\* No idle entry and the pool is closed.
GetClosed(p) ==
    /\ pc[p] = "get"
    /\ idleList = <<>>
    /\ GetSeesClosed
    /\ pc' = [pc EXCEPT ![p] = "idle"]
    /\ GetReturns(p, Nil, ErrClosedPool, FALSE)
    /\ UNCHANGED <<config, numOpenConn, running, idleList, now, numDialed, closeCount>>

\* No idle entry, running, capacity left: call newFunc.  newFunc may return a
\* resource, an error, neither, or both; a resource returned with an error is
\* dropped by get() and never enters the pool.
GetNew(p) ==
    /\ pc[p] = "get"
    /\ idleList = <<>>
    /\ ~GetSeesClosed
    /\ CanOpen
    /\ \E kind \in {"conn", "err", "nil", "connerr"} :
          LET c == IF kind = "conn" THEN numDialed + 1 ELSE Nil
              e == IF kind \in {"err", "connerr"} THEN DialErr ELSE NoErr
          IN  /\ kind = "conn" => numDialed < MaxConns
              /\ numDialed' = IF c # Nil THEN numDialed + 1 ELSE numDialed
              /\ numOpenConn' = Opened(c)
              /\ GetReturns(p, c, e, TRUE)
    /\ pc' = [pc EXCEPT ![p] = "idle"]
    /\ UNCHANGED <<config, running, idleList, now, closeCount>>

\* No idle entry, running, at capacity: cond.Wait().
GetWait(p) ==
    /\ pc[p] = "get"
    /\ idleList = <<>>
    /\ ~GetSeesClosed
    /\ ~CanOpen
    /\ pc' = [pc EXCEPT ![p] = "wait"]
    /\ UNCHANGED <<config, numOpenConn, running, idleList, err, out, now,
                   numDialed, closeCount, call, lastOp, lifo>>

\* cond.Wait() returns in a signalled caller (it re-locks), the caller unlocks
\* and starts the next iteration.
WaitReturn(p) ==
    /\ pc[p] = "woken"
    /\ pc' = [pc EXCEPT ![p] = "get"]
    /\ UNCHANGED <<config, numOpenConn, running, idleList, err, out, now,
                   numDialed, closeCount, call, lastOp, lifo>>

\* One step of a caller inside get().
get(p) ==
    \/ GetStale(p)
    \/ GetUnhealthy(p)
    \/ GetIdle(p)
    \/ GetClosed(p)
    \/ GetNew(p)
    \/ GetWait(p)
    \/ WaitReturn(p)

\* ------------------------------------------------------- Put and Release
\* Put, Release and Close are one critical section each and never wait, so the
\* goroutine that runs them has no position to track: any goroutine may return
\* a resource that is checked out.
\* pool.put(c, close) on a non-nil resource that is checked out.
put(c, close) ==
    /\ out[c] > 0
    /\ out' = [out EXCEPT ![c] = @ - 1]
    /\ IF PutSeesClosed
       THEN /\ release(c, pc)
            /\ idleList' = idleList
            /\ lifo' = <<>>
       ELSE IF close
       THEN /\ release(c, pc)
            /\ idleList' = idleList
            /\ lifo' = lifo
       ELSE LET pushed == PushFront(idleList, [c |-> c, t |-> now]) IN
            /\ idleList' = IF Overflow(pushed) THEN RemoveBack(pushed) ELSE pushed
            /\ release(IF Overflow(pushed) THEN pushed[Len(pushed)].c ELSE Nil, pc)
            /\ lifo' = IF Len(lifo) = 1 THEN <<lifo[1], [c |-> c, new |-> FALSE]>>
                       ELSE IF Len(lifo) = 2 THEN <<lifo[2], [c |-> c, new |-> FALSE]>>
                       ELSE <<[c |-> c, new |-> FALSE]>>
    /\ lastOp' = Op(IF close THEN "Release" ELSE "Put", 0, c)
    /\ UNCHANGED <<config, running, err, now, numDialed, call>>

Put(c) == c # Nil /\ put(c, FALSE)

\* Release that passes close = false.
ReleaseAsPut(c) == c # Nil /\ put(c, FALSE)

Release(c) == c # Nil /\ put(c, TRUE)

\* ---------------------------------------------------------------- Close
\* Close without its early return.
AlreadyClosedNever == FALSE

\* the early return of Close
AlreadyClosed == running = FALSE

\* Close that closes no idle entry.
CloseAllSkipped(l) == closeCount

\* the loop of Close: Conn.Close on every idle entry
CloseAll(l) ==
    [c \in Conns |-> closeCount[c] + Cardinality({ i \in 1..Len(l) : l[i].c = c })]

\* Close that leaves the idle list as it is.
NotDrained(l) == l

\* idleList.Init()
Drained(l) == <<>>

Close ==
    /\ IF AlreadyClosed
       THEN UNCHANGED <<running, numOpenConn, pc, closeCount, idleList, call, lifo>>
       ELSE /\ running' = FALSE
            /\ numOpenConn' = 0
            /\ pc' = Broadcast(pc)
            /\ closeCount' = CloseAll(idleList)
            /\ idleList' = Drained(idleList)
            /\ call' = [q \in Callers |->
                  IF pc[q] \in {"wait", "woken"}
                  THEN [call[q] EXCEPT !.blockedAtClose = TRUE] ELSE call[q]]
            /\ lifo' = <<>>
    /\ lastOp' = Op("Close", 0, Nil)
    /\ UNCHANGED <<config, err, out, now, numDialed>>

\* ---------------------------------------------------------------- time
\* The clock is read only to stamp an idle entry (put) and to compare the
\* stamp of the front entry with idleTimeout (get), so only the age of the
\* entries in the idle list is ever observed.  Time is therefore advanced only
\* while idleTimeout > 0 and some entry is idle: a behaviour in which the clock
\* also advances at other moments is a time shift of one modelled here.
Tick ==
    /\ idleTimeout > 0
    /\ idleList # <<>>
    /\ now < MaxTime
    /\ now' = now + 1
    /\ UNCHANGED <<config, numOpenConn, running, idleList, pc, err, out,
                   numDialed, closeCount, call, lastOp, lifo>>

\* ----------------------------------------------------------------- Next
Next ==
    \/ \E p \in Callers : GetCall(p)
    \/ \E p \in Callers : get(p)
    \/ \E c \in Conns : Put(c)
    \/ \E c \in Conns : Release(c)
    \/ Close
    \/ Tick

Spec == Init /\ [][Next]_vars

\* Every caller inside get() keeps running: the Go scheduler runs every
\* runnable goroutine and sync.Mutex hands the lock to every goroutine that
\* asks for it.  Nothing obliges anyone to call the pool again.
FairSpec == Init /\ [][Next]_vars /\ \A p \in Callers : WF_vars(get(p))

\* ============================================================== properties
RECURSIVE SumOut(_)
SumOut(S) == IF S = {} THEN 0
             ELSE LET c == CHOOSE x \in S : TRUE IN out[c] + SumOut(S \ {c})

\* resources checked out to callers
Outstanding == SumOut(Conns)

\* C1: when maxOpen > 0, numOpenConn is at most maxOpen in every state.
CapacityInvariant == maxOpenConn > 0 => numOpenConn <= maxOpenConn

\* A Get has just created a resource that filled the last slot of two.
CapacityWitness ==
    /\ maxOpenConn = 2 /\ numOpenConn = 2
    /\ lastOp.op = "Get" /\ lastOp.new /\ lastOp.c # Nil

\* C2: when maxOpen > 0, the resources that are idle or checked out are never
\* more than maxOpen, in every state, those after Close included.
LiveBounded == maxOpenConn > 0 => Len(idleList) + Outstanding <= maxOpenConn

\* The pool was closed while maxOpen resources were checked out.
LiveBoundedWitness ==
    /\ maxOpenConn = 2 /\ ~running /\ Outstanding = 2 /\ lastOp.op = "Close"

\* C3 as stated: after a Put, the idle list is no longer than maxIdle, for
\* every maxIdle, negative ones included.
IdleBoundAsStated == lastOp.op = "Put" => Len(idleList) <= maxIdleConn

\* C3 amended: after a Put, the idle list is no longer than maxIdle when
\* maxIdle >= 0, and is empty when maxIdle is negative.
IdleBound ==
    lastOp.op = "Put" =>
        Len(idleList) <= (IF maxIdleConn > 0 THEN maxIdleConn ELSE 0)

\* A Put on a running pool with a negative maxIdle closed the resource it was
\* given and left the idle list empty.
IdleBoundWitness ==
    /\ lastOp.op = "Put" /\ lastOp.wasRunning /\ maxIdleConn < 0
    /\ idleList = <<>> /\ closeCount[lastOp.c] = 1

\* A Put filled the idle list to maxIdle and closed the oldest entry.
IdleBoundFullWitness ==
    /\ lastOp.op = "Put" /\ lastOp.wasRunning /\ maxIdleConn = 1
    /\ Len(idleList) = 1 /\ idleList[1].c = lastOp.c
    /\ \E c \in Conns : c # lastOp.c /\ closeCount[c] = 1

\* C4: a Get that starts once the pool is closed finds the idle list empty,
\* never waits and returns ErrClosedPool with no resource in its first
\* iteration, without calling the factory.
ClosedPoolGetFails ==
    /\ \A p \in Callers :
          call[p].closedAtStart => pc[p] = "get" /\ idleList = <<>> /\ ~running
    /\ lastOp.op = "Get" /\ lastOp.closedAtStart =>
          lastOp.err = ErrClosedPool /\ lastOp.c = Nil /\ ~lastOp.new

\* A Get that started after Close failed, after a resource that was checked
\* out at Close had been returned to the closed pool.
ClosedPoolGetWitness ==
    /\ lastOp.op = "Get" /\ lastOp.closedAtStart /\ lastOp.err = ErrClosedPool
    /\ numOpenConn < 0

\* C5: on a running pool with maxIdle >= 2, after Put(A) then Put(B) with no
\* Get in between and no entry discarded, the next Get returns B and the one
\* after it returns A, neither from the factory.
LifoReuse ==
    maxIdleConn >= 2 =>
        /\ Len(lifo) >= 3 => lifo[3].c = lifo[2].c /\ ~lifo[3].new
        /\ Len(lifo) = 4 => lifo[4].c = lifo[1].c /\ ~lifo[4].new

\* Put(A), Put(B), Get, Get has been completed.
LifoWitness == maxIdleConn >= 2 /\ Len(lifo) = 4 /\ lifo[1].c # lifo[2].c

\* C6: a Get that returns yields exactly one of a resource and an error.
GetResourceXorError ==
    lastOp.op = "Get" => ((lastOp.c # Nil) <=> (lastOp.err = NoErr))

\* C7: a resource that was created and is neither idle nor checked out has
\* been closed exactly once; one that is idle or checked out has not been
\* closed; no resource is closed twice.
ClosedExactlyOnce ==
    \A c \in Conns :
        /\ closeCount[c] <= 1
        /\ c > numDialed => closeCount[c] = 0 /\ out[c] = 0 /\ c \notin IdleConns
        /\ c <= numDialed =>
              (closeCount[c] = 1 <=> (out[c] = 0 /\ c \notin IdleConns))

\* One resource was closed when Close drained the idle list, another when it
\* was Put to the closed pool.
ClosedOnceWitness ==
    /\ lastOp.op = "Put" /\ ~lastOp.wasRunning /\ closeCount[lastOp.c] = 1
    /\ \E c \in Conns : c # lastOp.c /\ closeCount[c] = 1

\* C8: maxOpen = 1, maxIdle = 1, no idle timeout, no health check.  While a
\* resource is checked out, a concurrent Get can only wait; and once Put has
\* returned resource a while caller q is blocked in Get, q's Get returns a,
\* not from the factory, leaving the idle list empty and numOpenConn = 1,
\* unless the pool is closed or another Get is started in the meantime.
ContentionConfig ==
    maxOpenConn = 1 /\ maxIdleConn = 1 /\ idleTimeout = 0 /\ ~testOnBorrowFunc

PutUnblocks(q, a) ==
    /\ ContentionConfig /\ running
    /\ lastOp.op = "Put" /\ lastOp.c = a
    /\ pc[q] \in {"wait", "woken"}
    /\ \A p \in Callers \ {q} : pc[p] = "idle"

WaiterGot(q, a) ==
    /\ lastOp.op = "Get" /\ lastOp.p = q /\ lastOp.c = a /\ lastOp.err = NoErr
    /\ ~lastOp.new
    /\ pc[q] = "idle" /\ out[a] = 1
    /\ idleList = <<>> /\ numOpenConn = 1

Disturbed(q) == ~running \/ \E p \in Callers \ {q} : pc[p] # "idle"

ContentionLiveness ==
    /\ [](ContentionConfig /\ running /\ Outstanding = 1 =>
             idleList = <<>> /\ ~CanOpen)
    /\ \A q \in Callers : \A a \in Conns :
          [](PutUnblocks(q, a) => <>(WaiterGot(q, a) \/ Disturbed(q)))

\* The holder has Put the only resource while the other caller was blocked:
\* the resource is idle and the blocked caller has been woken.
ContentionWitness ==
    \E q \in Callers : \E a \in Conns :
        /\ PutUnblocks(q, a) /\ pc[q] = "woken"
        /\ idleList # <<>> /\ idleList[1].c = a /\ numOpenConn = 1

\* C9: no caller is waiting on the condition of a closed pool; a Get that was
\* blocked when Close ran returns, and returns ErrClosedPool and no resource.
CloseWakesAll ==
    /\ [](~running => \A p \in Callers : pc[p] # "wait")
    /\ [](lastOp.op = "Get" /\ lastOp.blockedAtClose =>
             lastOp.err = ErrClosedPool /\ lastOp.c = Nil)
    /\ \A p \in Callers : call[p].blockedAtClose ~> pc[p] = "idle"

\* Two callers were blocked when Close ran; one has returned ErrClosedPool.
CloseWakesWitness ==
    /\ lastOp.op = "Get" /\ lastOp.blockedAtClose /\ lastOp.err = ErrClosedPool
    /\ \E q \in Callers : q # lastOp.p /\ call[q].blockedAtClose

\* C10: Close on a closed pool returns nil and changes neither running,
\* numOpenConn, the idle list nor any waiter, and closes nothing.
CloseIdempotent ==
    [][Close /\ ~running =>
          /\ UNCHANGED <<running, numOpenConn, idleList, closeCount, out, pc>>
          /\ lastOp'.op = "Close" /\ lastOp'.err = NoErr]_vars

\* Close has run on a closed pool whose count had gone below zero, and the
\* count is still below zero.
CloseIdempotentWitness ==
    lastOp.op = "Close" /\ ~lastOp.wasRunning /\ ~running /\ numOpenConn < 0

\* C11: a resource Put or Released to a closed pool is closed at once and is
\* not queued; the idle list of a closed pool is empty.
ClosedPoolNeverQueues ==
    /\ ~running => idleList = <<>>
    /\ lastOp.op \in {"Put", "Release"} /\ ~lastOp.wasRunning =>
          closeCount[lastOp.c] = 1 /\ out[lastOp.c] = 0 /\ lastOp.c \notin IdleConns

\* A resource that was checked out when Close ran has been Put to the closed
\* pool with room in the idle list, and was closed instead of queued.
ClosedPoolPutWitness ==
    /\ lastOp.op = "Put" /\ ~lastOp.wasRunning /\ maxIdleConn >= 1
    /\ closeCount[lastOp.c] = 1 /\ idleList = <<>>

\* C12: Release(c) on a running pool closes c once, lowers numOpenConn by
\* exactly one, wakes one waiter if there is any, and leaves the idle list as
\* it was, without c in it.
ReleaseEffect ==
    [][\A c \in Conns :
          Release(c) /\ running =>
              /\ closeCount' = [closeCount EXCEPT ![c] = @ + 1]
              /\ numOpenConn' = numOpenConn - 1
              /\ idleList' = idleList
              /\ \A i \in 1..Len(idleList') : idleList'[i].c # c
              /\ IF \E q \in Callers : pc[q] = "wait"
                 THEN \E q \in Callers :
                         pc[q] = "wait" /\ pc' = [pc EXCEPT ![q] = "woken"]
                 ELSE pc' = pc]_vars

\* A Release on a running pool with an idle entry has woken a waiter.
ReleaseWitness ==
    /\ lastOp.op = "Release" /\ lastOp.wasRunning /\ running
    /\ idleList # <<>> /\ closeCount[lastOp.c] = 1
    /\ \E q \in Callers : pc[q] = "woken"

\* C13: once running is false it stays false, and from then on no step calls
\* the factory.
RunningTerminal ==
    [][~running =>
          /\ ~running'
          /\ numDialed' = numDialed
          /\ ~(\E p \in Callers : GetNew(p))]_vars

\* A caller that was blocked when Close ran has returned without a resource,
\* although Close had reset numOpenConn below maxOpen.
RunningTerminalWitness ==
    /\ ~running /\ maxOpenConn = 1 /\ numOpenConn = 0 /\ numDialed = 1
    /\ lastOp.op = "Get" /\ lastOp.blockedAtClose /\ ~lastOp.new

\* C14 as stated: a Get that fails in the factory has itself changed neither
\* numOpenConn nor the idle list: it has released no idle entry.
FailedGetChangesNothing ==
    lastOp.op = "Get" /\ lastOp.err = DialErr => lastOp.freed = 0

\* C14 amended: the step of Get in which the factory fails returns the
\* factory's error and no resource and leaves numOpenConn, the idle list and
\* the waiters as they were; what the Get released before stays released.
FactoryFailureEffect ==
    [][\A p \in Callers :
          GetNew(p) /\ lastOp'.err # NoErr =>
              /\ lastOp'.err = DialErr /\ lastOp'.c = Nil
              /\ numOpenConn' = numOpenConn
              /\ idleList' = idleList
              /\ out' = out
              /\ pc' = [pc EXCEPT ![p] = "idle"]]_vars

\* A Get released one idle entry and then failed in the factory: the count
\* is one lower than before the Get.
FactoryFailureWitness ==
    /\ lastOp.op = "Get" /\ lastOp.err = DialErr /\ lastOp.c = Nil
    /\ lastOp.freed = 1 /\ numOpenConn = 0 /\ numDialed = 1

\* C15: a Get that finds the front idle entry older than idleTimeout closes
\* it, removes it, lowers numOpenConn by one and tries again; no Get returns
\* a resource that was closed; a Get that creates a resource raises
\* numOpenConn by one, so a Get that discarded one entry and created its
\* replacement leaves numOpenConn where it was.
IdleExpiry ==
    [][\A p \in Callers :
          /\ (get(p) /\ pc[p] = "get" /\ idleList # <<>>
                /\ idleTimeout > 0 /\ now - Head(idleList).t > idleTimeout) =>
                /\ idleList' = Tail(idleList)
                /\ closeCount' = [closeCount EXCEPT ![Head(idleList).c] = @ + 1]
                /\ numOpenConn' = numOpenConn - 1
                /\ out' = out /\ pc'[p] = "get"
          /\ (get(p) /\ pc[p] = "get" /\ pc'[p] = "idle" /\ lastOp'.c # Nil) =>
                /\ closeCount[lastOp'.c] = 0
                /\ lastOp'.new => numOpenConn' = numOpenConn + 1
                /\ ~lastOp'.new => numOpenConn' = numOpenConn]_vars

\* With an idle timeout and no health check, a Get discarded one stale entry
\* and created its replacement: one resource is closed, one is open.
IdleExpiryWitness ==
    /\ idleTimeout > 0 /\ ~testOnBorrowFunc /\ running
    /\ lastOp.op = "Get" /\ lastOp.new /\ lastOp.c # Nil /\ lastOp.freed = 1
    /\ numOpenConn = 1 /\ out[lastOp.c] = 1
    /\ \E c \in Conns : c # lastOp.c /\ closeCount[c] = 1

\* C16: a Get returns no error but ErrClosedPool and the factory's; when the
\* health check fails the entry is closed, numOpenConn is lowered by one and
\* the caller tries again.
HealthCheckEviction ==
    /\ [](lastOp.op = "Get" => lastOp.err \in {NoErr, ErrClosedPool, DialErr})
    /\ [][\A p \in Callers :
             (pc[p] = "get" /\ err[p] # BorrowErr /\ err'[p] = BorrowErr) =>
                 /\ idleList # <<>> /\ idleList' = Tail(idleList)
                 /\ closeCount' = [closeCount EXCEPT ![Head(idleList).c] = @ + 1]
                 /\ numOpenConn' = numOpenConn - 1
                 /\ pc'[p] = "get" /\ lastOp' = lastOp /\ out' = out]_vars

\* The health check failed for one entry and the same Get then returned a
\* resource and no error.
HealthCheckWitness ==
    /\ testOnBorrowFunc /\ idleTimeout = 0
    /\ lastOp.op = "Get" /\ lastOp.freed = 1
    /\ lastOp.c # Nil /\ lastOp.err = NoErr

\* C17: while the pool is running, numOpenConn is the number of idle entries
\* plus the number of resources checked out, no resource is idle and checked
\* out, or idle twice, or checked out twice.
Accounting ==
    running =>
        /\ numOpenConn = Len(idleList) + Outstanding
        /\ \A c \in Conns : out[c] <= 1 /\ (c \in IdleConns => out[c] = 0)
        /\ \A i, j \in 1..Len(idleList) : i # j => idleList[i].c # idleList[j].c

\* One resource idle, one checked out, two counted.
AccountingWitness ==
    running /\ Len(idleList) = 1 /\ Outstanding = 1 /\ numOpenConn = 2

\* C18: a caller enters cond.Wait only when the idle list is empty, the pool
\* is running, maxOpen > 0 and numOpenConn >= maxOpen; with maxOpen <= 0 no
\* caller ever waits; Put and Release of a checked-out resource and Close can
\* always run.
WaitOnlyAtCapacity ==
    /\ [](maxOpenConn <= 0 => \A p \in Callers : pc[p] \notin {"wait", "woken"})
    /\ [](/\ ENABLED Close
          /\ \A c \in Conns : out[c] > 0 => ENABLED Put(c) /\ ENABLED Release(c))
    /\ [][\A p \in Callers :
             pc[p] # "wait" /\ pc'[p] = "wait" =>
                 /\ idleList = <<>> /\ running
                 /\ maxOpenConn > 0 /\ numOpenConn >= maxOpenConn]_vars

\* A caller waits with both slots of two taken.
WaitWitness ==
    /\ maxOpenConn = 2 /\ numOpenConn = 2 /\ running /\ idleList = <<>>
    /\ \E p \in Callers : pc[p] = "wait"

\* C19: numOpenConn is never negative.
NumOpenNonNegative == numOpenConn >= 0

\* C20: on a running pool where every other caller has finished, a caller is
\* still waiting only if the idle list is empty and numOpenConn >= maxOpen.
NoStrandedWaiter ==
    \A p \in Callers :
        (/\ pc[p] = "wait" /\ running
         /\ \A q \in Callers \ {p} : pc[q] = "idle") =>
            idleList = <<>> /\ maxOpenConn > 0 /\ numOpenConn >= maxOpenConn

====
